---- MODULE Spec2Model ----
(***************************************************************************)
(* Model of pkg/file/tarutil.go: IterateTar, the lookups ReaderFromTar and *)
(* MetadataFromTar, and UntarToDirectory with its extraction visitor.      *)
(*                                                                         *)
(* Strings are sequences of one-character strings, so that filepath.Join,  *)
(* filepath.Clean and strings.HasPrefix are computed character by          *)
(* character as the Go library computes them.  Byte counts are int64       *)
(* values kept as two limbs (hi * GB + lo), because 2 * GB does not fit    *)
(* the 32-bit integers of the model checker.                               *)
(***************************************************************************)
EXTENDS Integers, Sequences, FiniteSets, TLC

\* ------------------------------------------------------------------ bounds
\* Pulls from the decoder per iteration (entries, nil headers) before the
\* stream has to end.
MaxPulls == 3
\* The same for an extraction, whose states carry a filesystem.
MaxExtractPulls == 2
\* Regular-file payload lengths 0..MaxSmallSize are tried next to the lengths
\* around the read limit.
MaxSmallSize == 1

\* ------------------------------------------------------------ int64 values
\* GB of package file (1 << 30); the base of the two-limb representation.
GB == 1073741824

I64(hi, lo) == [hi |-> hi, lo |-> lo]

I64FromInt(n) == I64(n \div GB, n % GB)

I64Leq(x, y) == x.hi < y.hi \/ (x.hi = y.hi /\ x.lo <= y.lo)

I64Lt(x, y) == x.hi < y.hi \/ (x.hi = y.hi /\ x.lo < y.lo)

I64Max(x, y) == IF I64Leq(x, y) THEN y ELSE x

I64Succ(x) == IF x.lo = GB - 1 THEN I64(x.hi + 1, 0) ELSE I64(x.hi, x.lo + 1)

I64Pred(x) == IF x.lo = 0 THEN I64(x.hi - 1, GB - 1) ELSE I64(x.hi, x.lo - 1)

I64Zero == I64(0, 0)

\* ----------------------------------------------------------------- strings
SEP == "/"

\* strings.HasPrefix(s, prefix)
HasPrefix(s, prefix) ==
    /\ Len(prefix) <= Len(s)
    /\ \A i \in 1..Len(prefix) : s[i] = prefix[i]

\* The components of a path between separators, empty ones included.
RECURSIVE SplitFrom(_, _, _, _)
SplitFrom(s, i, cur, acc) ==
    IF i > Len(s) THEN Append(acc, cur)
    ELSE IF s[i] = SEP THEN SplitFrom(s, i + 1, << >>, Append(acc, cur))
    ELSE SplitFrom(s, i + 1, Append(cur, s[i]), acc)

Split(s) == SplitFrom(s, 1, << >>, << >>)

DOTDOT == <<".", ".">>

\* filepath.Clean, the component pass: drop empty and "." components, let ".."
\* remove the component before it, keep a leading ".." of a relative path and
\* drop one at the root.
RECURSIVE CleanComponents(_, _, _, _)
CleanComponents(comps, i, out, rooted) ==
    IF i > Len(comps) THEN out
    ELSE LET c == comps[i] IN
         IF c = << >> \/ c = <<".">> THEN CleanComponents(comps, i + 1, out, rooted)
         ELSE IF c = DOTDOT THEN
              IF Len(out) > 0 /\ out[Len(out)] # DOTDOT
                  THEN CleanComponents(comps, i + 1, SubSeq(out, 1, Len(out) - 1), rooted)
              ELSE IF rooted THEN CleanComponents(comps, i + 1, out, rooted)
              ELSE CleanComponents(comps, i + 1, Append(out, c), rooted)
         ELSE CleanComponents(comps, i + 1, Append(out, c), rooted)

RECURSIVE JoinComponents(_)
JoinComponents(comps) ==
    IF Len(comps) = 0 THEN << >>
    ELSE IF Len(comps) = 1 THEN comps[1]
    ELSE comps[1] \o <<SEP>> \o JoinComponents(Tail(comps))

IsRooted(path) == Len(path) > 0 /\ path[1] = SEP

\* filepath.Clean(path)
Clean(path) ==
    IF path = << >> THEN <<".">>
    ELSE LET rooted == IsRooted(path)
             out    == JoinComponents(CleanComponents(Split(path), 1, << >>, rooted))
         IN  IF rooted THEN <<SEP>> \o out
             ELSE IF out = << >> THEN <<".">> ELSE out

\* filepath.Join(a, b): empty elements are ignored, the rest joined with the
\* separator and cleaned; no element left gives the empty string.
Join(a, b) ==
    IF a = << >> /\ b = << >> THEN << >>
    ELSE IF a = << >> THEN Clean(b)
    ELSE IF b = << >> THEN Clean(a)
    ELSE Clean(a \o <<SEP>> \o b)

\* The components of a cleaned path.
Components(path) == CleanComponents(Split(path), 1, << >>, IsRooted(path))

\* The path made of the first k components of path.
PrefixPath(path, k) ==
    LET up == JoinComponents(SubSeq(Components(path), 1, k)) IN
    IF IsRooted(path) THEN <<SEP>> \o up
    ELSE IF up = << >> THEN <<".">> ELSE up

\* ------------------------------------------------------------------ errors
\* An error value is its chain of wrapped layers, outermost first; nil is the
\* empty chain.
Nil == << >>

NewError(tag) == <<[tag |-> tag]>>

\* errors.Is(err, target) for a sentinel target: some layer of the chain is it.
ErrorsIs(err, tag) == \E i \in 1..Len(err) : err[i].tag = tag

\* var ErrTarStopIteration = fmt.Errorf("halt iterating tar")
ErrTarStopIteration == NewError("ErrTarStopIteration")

\* -------------------------------------------------------------- filesystem
\* The filesystem capability (afero.OsFs) as a function from clean paths to
\* nodes.  The root, the working directory and the chain of its parents
\* always exist as directories.
DirPerm == 493

IsImplicitDir(path) == \A i \in 1..Len(Components(path)) : Components(path)[i] = DOTDOT

Exists(fs, path) == IsImplicitDir(path) \/ path \in DOMAIN fs

IsDir(fs, path) == IsImplicitDir(path) \/ (path \in DOMAIN fs /\ fs[path].kind = "dir")

IsFile(fs, path) == ~IsImplicitDir(path) /\ path \in DOMAIN fs /\ fs[path].kind = "file"

ParentDir(path) == PrefixPath(path, Len(Components(path)) - 1)

\* The path itself and the directories above it, below the implicit ones.
SelfAndAncestors(path) == { PrefixPath(path, k) : k \in 1..Len(Components(path)) }

\* fs.Stat(path): the error, Nil when something exists at path.
Stat(fs, path) == IF Exists(fs, path) THEN Nil ELSE NewError("ENOENT")

\* fs.MkdirAll(path, perm): fails when a component of path is a file, else
\* creates every missing directory of the chain.
MkdirAll(fs, path, perm) ==
    IF \E p \in SelfAndAncestors(path) : IsFile(fs, p)
    THEN [err |-> NewError("ENOTDIR"), fs |-> fs]
    ELSE LET missing == { p \in SelfAndAncestors(path) : ~Exists(fs, p) } IN
         [err |-> Nil,
          fs  |-> [p \in DOMAIN fs \cup missing |->
                     IF p \in DOMAIN fs THEN fs[p]
                     ELSE [kind |-> "dir", mode |-> perm, size |-> I64Zero]]]

\* fs.OpenFile(path, os.O_CREATE|os.O_RDWR, mode): the parent must be a
\* directory and path no directory; a missing file is created empty, an
\* existing one is opened as it is (no O_TRUNC).
OpenFile(fs, path, mode) ==
    IF ~IsDir(fs, ParentDir(path)) THEN [err |-> NewError("ENOENT"), fs |-> fs]
    ELSE IF IsDir(fs, path) THEN [err |-> NewError("EISDIR"), fs |-> fs]
    ELSE IF Exists(fs, path) THEN [err |-> Nil, fs |-> fs]
    ELSE [err |-> Nil,
          fs  |-> [p \in DOMAIN fs \cup {path} |->
                     IF p \in DOMAIN fs THEN fs[p]
                     ELSE [kind |-> "file", mode |-> mode, size |-> I64Zero]]]

\* Writing n bytes from offset 0 of the file at path.
WriteAt0(fs, path, n) ==
    [fs EXCEPT ![path].size = I64Max(fs[path].size, n)]

\* ------------------------------------------------------------- read limit
\* strconv.ParseInt(val, 10, 64) on short strings: an optional sign, then at
\* least one digit and nothing but digits.
Digits == <<"0", "1", "2", "3", "4", "5", "6", "7", "8", "9">>

IsDigit(c) == \E d \in 1..Len(Digits) : Digits[d] = c

DigitValue(c) == (CHOOSE d \in 1..Len(Digits) : Digits[d] = c) - 1

RECURSIVE DigitsValue(_, _)
DigitsValue(ds, acc) ==
    IF ds = << >> THEN acc
    ELSE DigitsValue(Tail(ds), acc * Len(Digits) + DigitValue(Head(ds)))

ParseInt(val) ==
    LET signed == Len(val) > 0 /\ val[1] \in {"+", "-"}
        ds     == IF signed THEN Tail(val) ELSE val
    IN  IF ds = << >> \/ \E i \in 1..Len(ds) : ~IsDigit(ds[i])
        THEN [err |-> TRUE, v |-> 0]
        ELSE [err |-> FALSE,
              v   |-> IF signed /\ val[1] = "-" THEN 0 - DigitsValue(ds, 0)
                      ELSE DigitsValue(ds, 0)]

\* const perFileReadLimitDefault = 2 * GB
perFileReadLimitDefault == I64(2, 0)

\* setPerFileReadLimit taking every integer, positive or not.
setPerFileReadLimit_NoCheck(val, current) ==
    LET r == ParseInt(val) IN
    IF r.err THEN current ELSE I64FromInt(r.v)

\* setPerFileReadLimit(val), as the value perFileReadLimit holds after it.
setPerFileReadLimit(val, current) ==
    LET r == ParseInt(val) IN
    IF r.err \/ r.v <= 0 THEN current ELSE I64FromInt(r.v)

\* init(): perFileReadLimit after package initialisation with the
\* configuration string str.
InitReadLimit(str) == setPerFileReadLimit(str, perFileReadLimitDefault)

\* The configuration strings tried: the source's "0", a negative number, a
\* string that is no number, and a small positive limit.
LimitStrs == { <<"0">>, <<"-", "1">>, <<"x">>, <<"2">> }

\* ----------------------------------------------------------------- entries
\* tar.Header type flags: regular file, hard link, symlink, character device
\* (standing for every flag the visitor has no case for), directory.
TypeReg == "TypeReg"
TypeLink == "TypeLink"
TypeSymlink == "TypeSymlink"
TypeChar == "TypeChar"
TypeDir == "TypeDir"

DOT == <<".">>

\* Entry names: ".", "a", "a/b", "/a", "../a", "../ob".
Names ==
    { DOT,
      <<"a">>,
      <<"a", "/", "b">>,
      <<"/", "a">>,
      <<".", ".", "/", "a">>,
      <<".", ".", "/", "o", "b">> }

\* Destination roots: "/o", "o", ".." and the empty string.
Destinations == { <<"/", "o">>, <<"o">>, DOTDOT, << >> }

\* Header.Mode values (0644).
Modes == {420}

\* Payload lengths of regular files: the small ones and those around limit.
Sizes(limit) ==
    { I64FromInt(n) : n \in 0..MaxSmallSize } \cup { I64Pred(limit), limit, I64Succ(limit) }

\* Link targets of symlink and hard-link entries: "../a" and "/a".
Linknames == { <<".", ".", "/", "a">>, <<"/", "a">> }

Header(name, typeflag, linkname, mode, size, payload) ==
    [Name |-> name, Typeflag |-> typeflag, Linkname |-> linkname, Mode |-> mode,
     Size |-> size, Payload |-> payload]

\* The entries the decoder may yield.  Size is the header's declared size and
\* Payload the bytes the entry's reader serves: Size for an intact regular
\* file, fewer when the stream is cut short inside it (the read then fails
\* with io.ErrUnexpectedEOF), none for the header-only types.
Entries(limit) ==
    { Header(n, TypeReg, << >>, m, s, s) :
        n \in Names, m \in Modes, s \in Sizes(limit) }
    \cup
    { Header(n, TypeReg, << >>, m, s, I64Pred(s)) :
        n \in Names, m \in Modes, s \in Sizes(limit) \ {I64Zero} }
    \cup
    { Header(n, t, << >>, m, I64Zero, I64Zero) :
        n \in Names, m \in Modes, t \in {TypeDir, TypeChar} }
    \cup
    { Header(n, t, l, m, I64Zero, I64Zero) :
        n \in Names, m \in Modes, t \in {TypeSymlink, TypeLink}, l \in Linknames }

NoEntry == Header(<< >>, "none", << >>, 0, I64Zero, I64Zero)

\* ------------------------------------------------------ extraction visitor
\* withinDir := v.destination + string(os.PathSeparator)
WithinDir(destination) == destination \o <<SEP>>

\* The containment check of tarVisitor.visit: TRUE when the entry is let
\* through.
PassesContainment(destination, name) ==
    ~(~HasPrefix(Join(destination, name), WithinDir(destination)) /\ name # DOT)

\* io.Copy(f, entry.Reader): a copy that no limit ends.
LimitedCopy_Unlimited(entry, limit) ==
    [numBytes |-> entry.Payload,
     err      |-> IF I64Lt(entry.Payload, entry.Size)
                  THEN NewError("io.ErrUnexpectedEOF") ELSE Nil]

\* io.Copy(f, io.LimitReader(entry.Reader, limit)): the bytes copied and the
\* error.  The limited reader ends the copy cleanly once limit bytes were
\* served; a payload cut short before that fails the copy.
LimitedCopy(entry, limit) ==
    IF I64Leq(limit, entry.Payload) THEN [numBytes |-> limit, err |-> Nil]
    ELSE [numBytes |-> entry.Payload,
          err      |-> IF I64Lt(entry.Payload, entry.Size)
                       THEN NewError("io.ErrUnexpectedEOF") ELSE Nil]

\* if numBytes >= perFileReadLimit || errors.Is(err, io.EOF)
ReadLimitHit(numBytes, err, limit) == I64Leq(limit, numBytes) \/ ErrorsIs(err, "io.EOF")

\* A result of the visitor: its error, the filesystem and the open file
\* handles it leaves, and the filesystem calls it made.
VisitResult(err, fs, handles, calls) ==
    [err |-> err, fs |-> fs, handles |-> handles, calls |-> calls]

FsCall(name, path) == [call |-> name, path |-> path]

\* A symlink or hard link made at target, as an extractor of links would.
visitLink_Materialized(fs, handles, target, entry) ==
    VisitResult(Nil,
                [p \in DOMAIN fs \cup {target} |->
                   IF p \in DOMAIN fs THEN fs[p]
                   ELSE [kind |-> "link", mode |-> entry.Mode, size |-> I64Zero]],
                handles, <<FsCall("Symlink", target)>>)

\* case tar.TypeSymlink, tar.TypeLink: logged and skipped.
visitLink(fs, handles, target, entry) == VisitResult(Nil, fs, handles, << >>)

\* visitDir creating the directories with mode 0777.
visitDir_Mode0777(fs, handles, target, entry) ==
    IF entry.Name = DOT THEN VisitResult(Nil, fs, handles, << >>)
    ELSE IF Stat(fs, target) # Nil
    THEN LET made == MkdirAll(fs, target, 511) IN
         VisitResult(made.err, made.fs, handles,
                     <<FsCall("Stat", target), FsCall("MkdirAll", target)>>)
    ELSE VisitResult(Nil, fs, handles, <<FsCall("Stat", target)>>)

\* case tar.TypeDir
visitDir(fs, handles, target, entry) ==
    IF entry.Name = DOT THEN VisitResult(Nil, fs, handles, << >>)
    ELSE IF Stat(fs, target) # Nil
    THEN LET made == MkdirAll(fs, target, DirPerm) IN
         VisitResult(made.err, made.fs, handles,
                     <<FsCall("Stat", target), FsCall("MkdirAll", target)>>)
    ELSE VisitResult(Nil, fs, handles, <<FsCall("Stat", target)>>)

\* case tar.TypeReg
visitReg(fs, handles, target, entry, limit) ==
    LET opened == OpenFile(fs, target, entry.Mode)
        calls  == <<FsCall("OpenFile", target)>>
    IN  IF opened.err # Nil THEN VisitResult(opened.err, opened.fs, handles, calls)
        ELSE LET copied  == LimitedCopy(entry, limit)
                 written == WriteAt0(opened.fs, target, copied.numBytes)
                 open    == Append(handles, target)
             IN  IF ReadLimitHit(copied.numBytes, copied.err, limit)
                 THEN VisitResult(<<[tag |-> "bomb", numBytes |-> copied.numBytes,
                                     limit |-> limit]>>,
                                  written, open, calls)
                 ELSE IF copied.err # Nil
                 THEN VisitResult(<<[tag |-> "copy"]>> \o copied.err, written, open, calls)
                 ELSE VisitResult(Nil, written, handles, calls)

\* func (v tarVisitor) visit(entry TarFileEntry) error
visit(fs, handles, destination, entry, limit) ==
    LET target == Join(destination, entry.Name) IN
    IF ~PassesContainment(destination, entry.Name)
    THEN VisitResult(<<[tag |-> "traversal", name |-> entry.Name]>>, fs, handles, << >>)
    ELSE IF entry.Typeflag \in {TypeSymlink, TypeLink}
    THEN visitLink(fs, handles, target, entry)
    ELSE IF entry.Typeflag = TypeDir THEN visitDir(fs, handles, target, entry)
    ELSE IF entry.Typeflag = TypeReg THEN visitReg(fs, handles, target, entry, limit)
    ELSE VisitResult(Nil, fs, handles, << >>)

\* ------------------------------------------------------------------- state
VARIABLES
    perFileReadLimitStr,  \* the configuration string
    perFileReadLimit,     \* the read limit, set by init()
    op,                   \* the operation called
    destination,          \* UntarToDirectory's dst
    tarPath,              \* the lookups' tarPath
    pc,                   \* "next", "visit", "returned" (IterateTar has), "done",
                          \* "closed" (the returned reader was closed)
    sequence,             \* IterateTar's sequence
    hdr,                  \* the header tarReader.Next() returned last
    pulls,                \* what each pull from the decoder gave, in order
    visited,              \* the Sequence of each entry handed to the visitor
    outcomes,             \* the error the visitor returned for each of them
    fs,                   \* the destination filesystem
    openFiles,            \* file handles opened and not closed
    fsCalls,              \* the filesystem calls of the visitor's last run
    result,               \* the lookups' captured result / metadata
    iterErr,              \* IterateTar's return value
    ret,                  \* the operation's return value
    closes,               \* Close calls made on the stream passed in
    served,               \* what reading the returned content to its end gave
    matches               \* the Sequence of each visited entry named tarPath

vars ==
    <<perFileReadLimitStr, perFileReadLimit, op, destination, tarPath, pc, sequence,
      hdr, pulls, visited, outcomes, fs, openFiles, fsCalls, result, iterErr, ret,
      closes, served, matches>>

\* The variables no step of an operation changes.
inputs == <<perFileReadLimitStr, perFileReadLimit, op, destination, tarPath>>

\* ---------------------------------------------------------------- initial
UntarToDirectoryOp == "UntarToDirectory"
ReaderFromTarOp == "ReaderFromTar"
MetadataFromTarOp == "MetadataFromTar"
IterateTarOp == "IterateTar"

\* The logical paths looked up: "a" and "a/b".
LookupPaths == { <<"a">>, <<"a", "/", "b">> }

NoResult == [kind |-> "none"]

\* Nothing has been read from the content a lookup returned.
NotRead == [kind |-> "unread"]

\* The filesystem before extraction: the destination directory exists.
InitFs(dst) == MkdirAll(<< >>, Clean(dst), DirPerm).fs

\* The state every operation starts in: package initialisation has run, and
\* IterateTar is at the top of its loop with sequence = -1.
InitCommon ==
    /\ perFileReadLimitStr \in LimitStrs
    /\ perFileReadLimit = InitReadLimit(perFileReadLimitStr)
    /\ pc = "next"
    /\ sequence = -1
    /\ hdr = NoEntry
    /\ pulls = << >>
    /\ visited = << >>
    /\ outcomes = << >>
    /\ openFiles = << >>
    /\ fsCalls = << >>
    /\ result = NoResult
    /\ iterErr = Nil
    /\ ret = NoResult
    /\ closes = 0
    /\ served = NotRead
    /\ matches = << >>

InitExtract ==
    /\ InitCommon
    /\ op = UntarToDirectoryOp
    /\ destination \in Destinations
    /\ tarPath = << >>
    /\ fs = InitFs(destination)

InitLookup ==
    /\ InitCommon
    /\ op \in {ReaderFromTarOp, MetadataFromTarOp}
    /\ destination = << >>
    /\ tarPath \in LookupPaths
    /\ fs = << >>

InitIterate ==
    /\ InitCommon
    /\ op = IterateTarOp
    /\ destination = << >>
    /\ tarPath = << >>
    /\ fs = << >>

Init == InitExtract \/ InitLookup \/ InitIterate

\* ------------------------------------------------------------- IterateTar
\* The decoder yields at most MaxPulls (MaxExtractPulls) headers before the
\* stream ends.
MorePulls ==
    sequence + 1 < (IF op = UntarToDirectoryOp THEN MaxExtractPulls ELSE MaxPulls)

\* What a pull from the decoder gave: a header, a nil header, or an error
\* (io.EOF at the end of the stream).
Pulled(kind, err) == [kind |-> kind, err |-> err]

\* The decode errors tarReader.Next() may report.
DecodeErrors == { NewError("tar.ErrHeader"), NewError("io.ErrUnexpectedEOF") }

\* AfterNext with the decode error wrapped before it is returned.
AfterNext_WrapsError(pulled) ==
    IF ErrorsIs(pulled.err, "io.EOF") THEN [pc |-> "returned", iterErr |-> Nil]
    ELSE IF pulled.err # Nil
    THEN [pc |-> "returned", iterErr |-> <<[tag |-> "failed to read tar"]>> \o pulled.err]
    ELSE IF pulled.kind = "nil" THEN [pc |-> "next", iterErr |-> Nil]
    ELSE [pc |-> "visit", iterErr |-> Nil]

\* What IterateTar does with the (hdr, err) of tarReader.Next(): break and
\* return nil on io.EOF, return err on another error, continue on a nil
\* header, else invoke the visitor.
AfterNext(pulled) ==
    IF ErrorsIs(pulled.err, "io.EOF") THEN [pc |-> "returned", iterErr |-> Nil]
    ELSE IF pulled.err # Nil THEN [pc |-> "returned", iterErr |-> pulled.err]
    ELSE IF pulled.kind = "nil" THEN [pc |-> "next", iterErr |-> Nil]
    ELSE [pc |-> "visit", iterErr |-> Nil]

\* sequence++; hdr, err := tarReader.Next(), and what follows from it.
Iterate(pulled) ==
    /\ pc = "next"
    /\ sequence' = sequence + 1
    /\ pulls' = Append(pulls, pulled)
    /\ pc' = AfterNext(pulled).pc
    /\ iterErr' = AfterNext(pulled).iterErr

\* tarReader.Next() reports io.EOF.
NextEOF ==
    /\ Iterate(Pulled("EOF", NewError("io.EOF")))
    /\ hdr' = NoEntry
    /\ UNCHANGED <<inputs, visited, outcomes, fs, openFiles, fsCalls, result, ret,
                   closes, served, matches>>

\* tarReader.Next() reports a decode error.
NextError ==
    /\ \E err \in DecodeErrors : Iterate(Pulled("error", err))
    /\ hdr' = NoEntry
    /\ UNCHANGED <<inputs, visited, outcomes, fs, openFiles, fsCalls, result, ret,
                   closes, served, matches>>

\* tarReader.Next() gives a nil header and no error.
NextNilHeader ==
    /\ MorePulls
    /\ Iterate(Pulled("nil", Nil))
    /\ hdr' = NoEntry
    /\ UNCHANGED <<inputs, visited, outcomes, fs, openFiles, fsCalls, result, ret,
                   closes, served, matches>>

\* tarReader.Next() gives the next entry's header.
NextEntry ==
    /\ MorePulls
    /\ Iterate(Pulled("entry", Nil))
    /\ hdr' \in Entries(perFileReadLimit)
    /\ fsCalls' = << >>
    /\ UNCHANGED <<inputs, visited, outcomes, fs, openFiles, result, ret, closes,
                   served, matches>>

\* fmt.Errorf("failed to visit tar entry=%q : %w", hdr.Name, err)
VisitError(name, err) == <<[tag |-> "failed to visit tar entry", name |-> name]>> \o err

\* AfterVisit returning after the first visit, whatever the visitor returned.
AfterVisit_StopsOnContinue(name, err) ==
    IF err = Nil \/ ErrorsIs(err, "ErrTarStopIteration")
    THEN [pc |-> "returned", iterErr |-> Nil]
    ELSE [pc |-> "returned", iterErr |-> VisitError(name, err)]

\* AfterVisit without the test for the stop sentinel.
AfterVisit_StopIsError(name, err) ==
    IF err = Nil THEN [pc |-> "next", iterErr |-> Nil]
    ELSE [pc |-> "returned", iterErr |-> VisitError(name, err)]

\* AfterVisit returning the visitor's error as it is.
AfterVisit_Unwrapped(name, err) ==
    IF err = Nil THEN [pc |-> "next", iterErr |-> Nil]
    ELSE IF ErrorsIs(err, "ErrTarStopIteration") THEN [pc |-> "returned", iterErr |-> Nil]
    ELSE [pc |-> "returned", iterErr |-> err]

\* What IterateTar does with the visitor's return value err for the entry
\* named name: loop again, return nil on the stop sentinel, or return the
\* wrapped error.
AfterVisit(name, err) ==
    IF err = Nil THEN [pc |-> "next", iterErr |-> Nil]
    ELSE IF ErrorsIs(err, "ErrTarStopIteration") THEN [pc |-> "returned", iterErr |-> Nil]
    ELSE [pc |-> "returned", iterErr |-> VisitError(name, err)]

\* The visitor is called with TarFileEntry{Sequence: sequence, Header: *hdr,
\* Reader: tarReader} and returned err.
Visited(err) ==
    LET after == AfterVisit(hdr.Name, err) IN
    /\ visited' = Append(visited, sequence)
    /\ outcomes' = Append(outcomes, err)
    /\ pc' = after.pc
    /\ iterErr' = after.iterErr
    /\ matches' = IF hdr.Name = tarPath THEN Append(matches, sequence) ELSE matches
    /\ UNCHANGED hdr

\* IterateTar invokes tarVisitor.visit (UntarToDirectory).
VisitExtract ==
    /\ pc = "visit"
    /\ op = UntarToDirectoryOp
    /\ LET r == visit(fs, openFiles, destination, hdr, perFileReadLimit) IN
       /\ fs' = r.fs
       /\ openFiles' = r.handles
       /\ fsCalls' = r.calls
       /\ Visited(r.err)
    /\ UNCHANGED <<inputs, sequence, pulls, result, ret, closes, served>>

\* readerVisitor capturing the match and letting the iteration go on.
readerVisitor_NoStop(entry, path, current) ==
    IF entry.Header.Name = path
    THEN [err    |-> Nil,
          result |-> [kind |-> "tarFile", Reader |-> entry.Reader, Closer |-> "reader",
                      Header |-> entry.Header],
          closes |-> 0]
    ELSE [err |-> Nil, result |-> current, closes |-> 0]

\* The visitor of ReaderFromTar: on a match result is the tarFile of the
\* entry's reader and the stream passed in as closer.  closes counts the
\* Close calls the visitor makes on the stream passed in.
readerVisitor(entry, path, current) ==
    IF entry.Header.Name = path
    THEN [err    |-> ErrTarStopIteration,
          result |-> [kind |-> "tarFile", Reader |-> entry.Reader, Closer |-> "reader",
                      Header |-> entry.Header],
          closes |-> 0]
    ELSE [err |-> Nil, result |-> current, closes |-> 0]

\* metadataVisitor capturing every match and going on: the last one wins.
metadataVisitor_LastWins(entry, path, current) ==
    IF entry.Header.Name = path
    THEN [err    |-> Nil,
          result |-> [kind |-> "Metadata", Header |-> entry.Header,
                      content |-> IF I64Lt(I64Zero, entry.Header.Size)
                                  THEN "reader" ELSE "nil"],
          closes |-> 0]
    ELSE [err |-> Nil, result |-> current, closes |-> 0]

\* metadataVisitor handing the stream to NewMetadata whatever the size.
metadataVisitor_AlwaysReader(entry, path, current) ==
    IF entry.Header.Name = path
    THEN [err    |-> ErrTarStopIteration,
          result |-> [kind |-> "Metadata", Header |-> entry.Header,
                      content |-> "reader"],
          closes |-> 0]
    ELSE [err |-> Nil, result |-> current, closes |-> 0]

\* The visitor of MetadataFromTar: on a match metadata is
\* NewMetadata(entry.Header, content), content being the stream passed in
\* when the declared size is positive and nil otherwise.
metadataVisitor(entry, path, current) ==
    IF entry.Header.Name = path
    THEN [err    |-> ErrTarStopIteration,
          result |-> [kind |-> "Metadata", Header |-> entry.Header,
                      content |-> IF I64Lt(I64Zero, entry.Header.Size)
                                  THEN "reader" ELSE "nil"],
          closes |-> 0]
    ELSE [err |-> Nil, result |-> current, closes |-> 0]

\* TarFileEntry{Sequence: sequence, Header: *hdr, Reader: tarReader}; the
\* decoder's reader serves the payload of the entry pulled last.
TarFileEntry ==
    [Sequence |-> sequence, Header |-> hdr,
     Reader |-> [kind |-> "tarReader", at |-> sequence]]

VisitReader ==
    /\ pc = "visit"
    /\ op = ReaderFromTarOp
    /\ LET r == readerVisitor(TarFileEntry, tarPath, result) IN
       /\ result' = r.result
       /\ closes' = closes + r.closes
       /\ Visited(r.err)
    /\ UNCHANGED <<inputs, sequence, pulls, fs, openFiles, fsCalls, ret, served>>

VisitMetadata ==
    /\ pc = "visit"
    /\ op = MetadataFromTarOp
    /\ LET r == metadataVisitor(TarFileEntry, tarPath, result) IN
       /\ result' = r.result
       /\ closes' = closes + r.closes
       /\ Visited(r.err)
    /\ UNCHANGED <<inputs, sequence, pulls, fs, openFiles, fsCalls, ret, served>>

\* What a caller's visitor may return: nil, the stop sentinel, the sentinel
\* wrapped, another error.
CallerReturns ==
    { Nil, ErrTarStopIteration, <<[tag |-> "wrapped"]>> \o ErrTarStopIteration,
      NewError("visitor failed") }

\* IterateTar invokes a visitor of the caller's.
VisitCaller ==
    /\ pc = "visit"
    /\ op = IterateTarOp
    /\ \E err \in CallerReturns : Visited(err)
    /\ UNCHANGED <<inputs, sequence, pulls, fs, openFiles, fsCalls, result, ret,
                   closes, served>>

\* ---------------------------------------------------------------- returns
ErrFileNotFound(path) == <<[tag |-> "ErrFileNotFound", Path |-> path]>>

Return(val, err) == [kind |-> "return", val |-> val, err |-> err]

\* lookupReturn reporting success with nothing when nothing was captured.
lookupReturn_NotFoundIsNil(err, captured, path) ==
    IF err # Nil THEN Return(NoResult, err)
    ELSE Return(captured, Nil)

\* ReaderFromTar / MetadataFromTar after IterateTar: the iteration's error,
\* else not-found when nothing was captured, else the captured value.
lookupReturn(err, captured, path) ==
    IF err # Nil THEN Return(NoResult, err)
    ELSE IF captured = NoResult THEN Return(NoResult, ErrFileNotFound(path))
    ELSE Return(captured, Nil)

ReaderFromTarReturn ==
    /\ pc = "returned"
    /\ op = ReaderFromTarOp
    /\ ret' = lookupReturn(iterErr, result, tarPath)
    /\ pc' = "done"
    /\ UNCHANGED <<inputs, sequence, hdr, pulls, visited, outcomes, fs, openFiles,
                   fsCalls, result, iterErr, closes, served, matches>>

MetadataFromTarReturn ==
    /\ pc = "returned"
    /\ op = MetadataFromTarOp
    /\ ret' = lookupReturn(iterErr, result, tarPath)
    /\ pc' = "done"
    /\ UNCHANGED <<inputs, sequence, hdr, pulls, visited, outcomes, fs, openFiles,
                   fsCalls, result, iterErr, closes, served, matches>>

\* return IterateTar(reader, tarVisitor{...}.visit)
UntarToDirectoryReturn ==
    /\ pc = "returned"
    /\ op = UntarToDirectoryOp
    /\ ret' = Return(NoResult, iterErr)
    /\ pc' = "done"
    /\ UNCHANGED <<inputs, sequence, hdr, pulls, visited, outcomes, fs, openFiles,
                   fsCalls, result, iterErr, closes, served, matches>>

\* IterateTar called directly hands its error to the caller.
IterateTarReturn ==
    /\ pc = "returned"
    /\ op = IterateTarOp
    /\ ret' = Return(NoResult, iterErr)
    /\ pc' = "done"
    /\ UNCHANGED <<inputs, sequence, hdr, pulls, visited, outcomes, fs, openFiles,
                   fsCalls, result, iterErr, closes, served, matches>>

\* ------------------------------------------------ the returned content
\* The tar format stores a payload in blocks of 512 bytes, the last one
\* padded with zero bytes.
TarBlockSize == 512

\* The zero bytes that pad a payload of size bytes to a whole block (GB is a
\* multiple of the block size).
Padding(size) == (TarBlockSize - (size.lo % TarBlockSize)) % TarBlockSize

\* The bytes of the stream after the matched entry's padded payload: none,
\* or the two zero blocks that end an archive.
StreamRests == { 0, 2 * TarBlockSize }

Served(payload, beyond, err) ==
    [kind |-> "read", payload |-> payload, beyond |-> beyond, err |-> err]

\* Reading entry.Reader (the decoder) to its end: the payload of the current
\* entry and then EOF; io.ErrUnexpectedEOF when the stream ends before the
\* declared size.
tarReaderRead(header) ==
    Served(header.Payload, 0,
           IF I64Lt(header.Payload, header.Size)
           THEN NewError("io.ErrUnexpectedEOF") ELSE Nil)

\* Reading the stream passed in to its end from where the decoder left it
\* after the header: the payload, its padding and all that follows.
streamRead(header, rest) ==
    IF I64Lt(header.Payload, header.Size)
    THEN Served(header.Payload, 0, Nil)
    ELSE Served(header.Payload, Padding(header.Size) + rest, Nil)

\* The content reader a lookup returned: tarFile.Reader, or the content
\* NewMetadata was given.
ContentOf(val) == IF val.kind = "tarFile" THEN val.Reader.kind ELSE val.content

\* The receiver of a lookup's content reads it to its end.
ReadContent ==
    /\ pc = "done"
    /\ op \in {ReaderFromTarOp, MetadataFromTarOp}
    /\ ret.err = Nil
    /\ served = NotRead
    /\ ContentOf(ret.val) # "nil"
    /\ \E rest \in StreamRests :
          served' = IF ContentOf(ret.val) = "tarReader"
                    THEN tarReaderRead(ret.val.Header)
                    ELSE streamRead(ret.val.Header, rest)
    /\ UNCHANGED <<inputs, pc, sequence, hdr, pulls, visited, outcomes, fs, openFiles,
                   fsCalls, result, iterErr, ret, closes, matches>>

\* tarFile.Close() with no closer behind it.
tarFileClose_NoCloser(tf) == 0

\* tarFile.Close() is the Close() of the embedded io.Closer: the number of
\* Close calls it makes on the stream passed in.
tarFileClose(tf) == IF tf.Closer = "reader" THEN 1 ELSE 0

\* The caller closes the reader ReaderFromTar returned.
CloseResult ==
    /\ pc = "done"
    /\ op = ReaderFromTarOp
    /\ ret.err = Nil
    /\ closes' = closes + tarFileClose(ret.val)
    /\ pc' = "closed"
    /\ UNCHANGED <<inputs, sequence, hdr, pulls, visited, outcomes, fs, openFiles,
                   fsCalls, result, iterErr, ret, served, matches>>

\* --------------------------------------------------------- specifications
NextExtract == NextEOF \/ NextError \/ NextNilHeader \/ NextEntry
                 \/ VisitExtract \/ UntarToDirectoryReturn

NextLookup == NextEOF \/ NextError \/ NextNilHeader \/ NextEntry
                \/ VisitReader \/ VisitMetadata
                \/ ReaderFromTarReturn \/ MetadataFromTarReturn
                \/ ReadContent \/ CloseResult

NextIterate == NextEOF \/ NextError \/ NextNilHeader \/ NextEntry
                 \/ VisitCaller \/ IterateTarReturn

Next == NextEOF \/ NextError \/ NextNilHeader \/ NextEntry
          \/ VisitExtract \/ VisitReader \/ VisitMetadata \/ VisitCaller
          \/ ReaderFromTarReturn \/ MetadataFromTarReturn
          \/ UntarToDirectoryReturn \/ IterateTarReturn
          \/ ReadContent \/ CloseResult

\* UntarToDirectory alone.
SpecExtract == InitExtract /\ [][NextExtract]_vars

\* The lookups alone.
SpecLookup == InitLookup /\ [][NextLookup]_vars

\* IterateTar with a caller's visitor alone.
SpecIterate == InitIterate /\ [][NextIterate]_vars

Spec == Init /\ [][Next]_vars

\* ------------------------------------------------------------ properties
Last(seq) == seq[Len(seq)]

\* path is the directory root or lies below it, component by component,
\* whatever the spelling of either.
LexicallyInside(root, path) ==
    LET rc == Components(Clean(root))
        pc_ == Components(Clean(path))
    IN  /\ IsRooted(Clean(root)) = IsRooted(Clean(path))
        /\ Len(rc) <= Len(pc_)
        /\ SubSeq(pc_, 1, Len(rc)) = rc
        /\ \A i \in (Len(rc) + 1)..Len(pc_) : pc_[i] # DOTDOT

\* The extraction visitor is about to run on hdr.
AtExtractVisit == pc = "visit" /\ op = UntarToDirectoryOp

\* The extraction visitor has just run on hdr.
ExtractVisited == pc # "visit" /\ op = UntarToDirectoryOp /\ hdr # NoEntry

IsTraversalError(err) == err # Nil /\ err[1].tag = "traversal"

IsBombError(err) == err # Nil /\ err[1].tag = "bomb"

\* C1: in every state of an extraction, every directory and file the visitor
\* has created lies inside the destination root, and so does every path it
\* has called MkdirAll or OpenFile on.
C1_Containment ==
    op = UntarToDirectoryOp =>
        /\ \A p \in DOMAIN fs \ DOMAIN InitFs(destination) :
               LexicallyInside(destination, p)
        /\ \A i \in 1..Len(fsCalls) :
               fsCalls[i].call \in {"MkdirAll", "OpenFile"}
                   => LexicallyInside(destination, fsCalls[i].path)

\* C2: the visitor run on an entry whose name resolves outside the
\* destination root returns the traversal error, makes no filesystem call and
\* changes nothing on disk, and IterateTar returns without another pull.
C2_TraversalRejected ==
    [][ (AtExtractVisit /\ ~LexicallyInside(destination, Join(destination, hdr.Name)))
          => /\ IsTraversalError(Last(outcomes'))
             /\ fsCalls' = << >>
             /\ fs' = fs
             /\ pc' = "returned"
             /\ iterErr' # Nil ]_vars

\* C3: the visitor run on an entry named "." returns no error and creates no
\* filesystem node, whatever the entry's type flag.
C3_DotIsNoOp ==
    [][ (AtExtractVisit /\ hdr.Name = DOT)
          => /\ Last(outcomes') = Nil
             /\ DOMAIN fs' = DOMAIN fs ]_vars

\* C4: for an intact regular-file entry that passes the containment check and
\* whose target can be opened, the visitor returns the bomb-limit error when
\* the content length exceeds the read limit, and otherwise (length at or
\* under the limit) returns no error and leaves a file of exactly the content
\* length.
C4_ReadLimit ==
    [][ (/\ AtExtractVisit
         /\ hdr.Typeflag = TypeReg
         /\ hdr.Payload = hdr.Size
         /\ PassesContainment(destination, hdr.Name)
         /\ OpenFile(fs, Join(destination, hdr.Name), hdr.Mode).err = Nil)
          => IF I64Lt(perFileReadLimit, hdr.Payload)
             THEN IsBombError(Last(outcomes'))
             ELSE /\ Last(outcomes') = Nil
                  /\ fs'[Join(destination, hdr.Name)].size = hdr.Payload ]_vars

IsLink(entry) == entry.Typeflag \in {TypeSymlink, TypeLink}

\* C5 as stated: the visitor run on a symlink or hard-link entry, whatever
\* its link target, makes no filesystem call, changes nothing on disk, and
\* returns no error, so that IterateTar goes on to the next pull.
C5_LinksSkippedWithoutError ==
    [][ (AtExtractVisit /\ IsLink(hdr))
          => /\ fs' = fs
             /\ fsCalls' = << >>
             /\ openFiles' = openFiles
             /\ Last(outcomes') = Nil
             /\ pc' = "next" ]_vars

\* C5 as amended: the visitor run on a symlink or hard-link entry, whatever
\* its link target, makes no filesystem call and changes nothing on disk; it
\* returns no error and IterateTar goes on to the next pull when the entry's
\* name passes the containment check, and it returns the traversal error,
\* which ends the extraction, when the name does not.
C5_LinksNeverMaterialized ==
    [][ (AtExtractVisit /\ IsLink(hdr))
          => /\ fs' = fs
             /\ fsCalls' = << >>
             /\ openFiles' = openFiles
             /\ IF HasPrefix(Join(destination, hdr.Name), destination \o <<SEP>>)
                   \/ hdr.Name = DOT
                THEN Last(outcomes') = Nil /\ pc' = "next"
                ELSE IsTraversalError(Last(outcomes')) /\ pc' = "returned" ]_vars

\* A link entry with a link target that leaves the destination was visited
\* and the iteration is at its next pull.
C5_Witness ==
    /\ ExtractVisited
    /\ pc = "next"
    /\ IsLink(hdr)
    /\ ~LexicallyInside(destination, Join(destination, hdr.Linkname))
    /\ Last(outcomes) = Nil

\* ---- IterateTar
Returned == pc \in {"returned", "done", "closed"}

\* The visitor was invoked for every entry pulled so far but the one it is
\* about to be invoked for, in the order of the pulls, with the pull's number
\* as Sequence.
VisitedAllPulled ==
    LET entryPulls == { i \in 1..Len(pulls) : pulls[i].kind = "entry" }
        due        == IF pc = "visit" THEN entryPulls \ {Len(pulls)} ELSE entryPulls
    IN  /\ Len(visited) = Cardinality(due)
        /\ \A k \in 1..Len(visited) :
               /\ visited[k] + 1 \in due
               /\ \A j \in 1..(k - 1) : visited[j] < visited[k]

\* Only the last return of the visitor can be other than nil.
OnlyLastReturnEnds == \A i \in 1..(Len(outcomes) - 1) : outcomes[i] = Nil

\* C6: while the decoder has given only entries (then the end of the stream)
\* and the visitor has returned nil each time, the visitor has been invoked
\* once per entry pulled, in order, with Sequence 0, 1, ..., and IterateTar
\* returns only at the end of the stream, with nil, after N invocations for N
\* entries.
C6_SequenceGapless ==
    (/\ op = IterateTarOp
     /\ \A i \in 1..Len(pulls) : pulls[i].kind \in {"entry", "EOF"}
     /\ \A i \in 1..Len(outcomes) : outcomes[i] = Nil)
      => /\ visited = [i \in 1..Len(visited) |-> i - 1]
         /\ Len(outcomes) = Len(visited)
         /\ pc = "next" => Len(visited) = Len(pulls)
         /\ pc = "visit" => Len(visited) = Len(pulls) - 1
         /\ Returned => /\ Last(pulls).kind = "EOF"
                        /\ Len(visited) = Len(pulls) - 1
                        /\ iterErr = Nil
         /\ pc = "done" => ret.err = Nil

\* IterateTar has returned nil after three entries, each visited and each
\* answered with nil.
C6_Witness ==
    /\ op = IterateTarOp
    /\ pc = "done"
    /\ ret.err = Nil
    /\ Len(pulls) = 4
    /\ \A i \in 1..3 : pulls[i].kind = "entry"
    /\ outcomes = <<Nil, Nil, Nil>>
    /\ visited = <<0, 1, 2>>

\* C7: once the visitor has returned the stop sentinel, IterateTar has
\* returned nil; the pull of the entry the visitor stopped at is the last
\* pull, and the visitor was not invoked again.
C7_StopReturnsSuccess ==
    (/\ op = IterateTarOp
     /\ Len(outcomes) > 0
     /\ \E i \in 1..Len(Last(outcomes)) : Last(outcomes)[i].tag = "ErrTarStopIteration")
      => /\ Returned
         /\ iterErr = Nil
         /\ pc = "done" => ret.err = Nil
         /\ Last(pulls).kind = "entry"
         /\ Len(pulls) = Last(visited) + 1
         /\ Len(pulls) = sequence + 1
         /\ Len(outcomes) = Len(visited)
         /\ OnlyLastReturnEnds

\* The visitor returned the stop sentinel at the second of the entries and
\* IterateTar has returned.
C7_Witness ==
    /\ op = IterateTarOp
    /\ pc = "done"
    /\ outcomes = <<Nil, ErrTarStopIteration>>
    /\ visited = <<0, 1>>

\* C8: once the visitor has returned an error that is not the stop sentinel,
\* IterateTar has returned an error whose outer layer names the entry
\* visited and which wraps the visitor's error; the pull of that entry is the
\* last pull, and the visitor was not invoked again.
C8_VisitorErrorWrapped ==
    (/\ op = IterateTarOp
     /\ Len(outcomes) > 0
     /\ Last(outcomes) # Nil
     /\ \A i \in 1..Len(Last(outcomes)) : Last(outcomes)[i].tag # "ErrTarStopIteration")
      => /\ Returned
         /\ Len(iterErr) = Len(Last(outcomes)) + 1
         /\ iterErr[1].tag = "failed to visit tar entry"
         /\ iterErr[1].name = hdr.Name
         /\ Tail(iterErr) = Last(outcomes)
         /\ pc = "done" => ret.err = iterErr
         /\ Last(pulls).kind = "entry"
         /\ Len(pulls) = Last(visited) + 1
         /\ Len(pulls) = sequence + 1
         /\ Len(outcomes) = Len(visited)
         /\ OnlyLastReturnEnds

\* The visitor failed at the second of the entries, named "a/b", and
\* IterateTar has returned.
C8_Witness ==
    /\ op = IterateTarOp
    /\ pc = "done"
    /\ outcomes = <<Nil, NewError("visitor failed")>>
    /\ visited = <<0, 1>>
    /\ hdr.Name = <<"a", "/", "b">>

\* C9: when the last pull gave a decode error, IterateTar has returned that
\* very error, the visitor was invoked for the entries pulled before it and
\* not since; when the last pull gave the end of the stream, IterateTar has
\* returned nil.
C9_DecodeErrorReturned ==
    (op = IterateTarOp /\ Len(pulls) > 0)
      => /\ Last(pulls).kind = "error"
             => /\ Returned
                /\ iterErr = Last(pulls).err
                /\ pc = "done" => ret.err = Last(pulls).err
                /\ VisitedAllPulled
                /\ Len(pulls) = sequence + 1
                /\ \A i \in 1..Len(outcomes) : outcomes[i] = Nil
         /\ Last(pulls).kind = "EOF"
             => /\ Returned
                /\ iterErr = Nil
                /\ pc = "done" => ret.err = Nil
                /\ VisitedAllPulled

\* A decode error came after two entries and IterateTar has returned.
C9_Witness ==
    /\ op = IterateTarOp
    /\ pc = "done"
    /\ Len(pulls) = 3
    /\ Last(pulls).kind = "error"
    /\ visited = <<0, 1>>
    /\ ret.err \in DecodeErrors

\* ---- lookups
IsLookup == op \in {ReaderFromTarOp, MetadataFromTarOp}

\* C10: a lookup whose visitor meets the first entry named tarPath ends the
\* iteration there with nil and captures that entry: its header, and for
\* ReaderFromTar the decoder's reader standing at that entry with the stream
\* passed in as closer.  Nothing is pulled or visited after the match, and
\* the lookup returns what it captured and no error.
C10_LookupReturnsMatch ==
    /\ [][ (pc = "visit" /\ IsLookup /\ hdr.Name = tarPath)
             => /\ pc' = "returned"
                /\ iterErr' = Nil
                /\ result' # NoResult
                /\ result'.Header = hdr
                /\ op = ReaderFromTarOp
                     => /\ result'.Reader = [kind |-> "tarReader", at |-> sequence]
                        /\ result'.Closer = "reader" ]_vars
    /\ []( (IsLookup /\ result # NoResult)
             => /\ Returned
                /\ result.Header = hdr
                /\ hdr.Name = tarPath
                /\ Last(pulls).kind = "entry"
                /\ Len(pulls) = Last(visited) + 1
                /\ Len(pulls) = sequence + 1
                /\ OnlyLastReturnEnds
                /\ pc = "done" => ret = Return(result, Nil) )

\* MetadataFromTar has returned the metadata of the third entry, the first
\* one named tarPath.
C10_Witness ==
    /\ op = MetadataFromTarOp
    /\ pc = "done"
    /\ ret.err = Nil
    /\ ret.val # NoResult
    /\ ret.val.Header.Name = tarPath
    /\ visited = <<0, 1, 2>>

\* The lookup has returned to its caller.
LookupDone == IsLookup /\ pc \in {"done", "closed"}

IsNotFound(err) == err # Nil /\ err[1].tag = "ErrFileNotFound"

\* C11: a lookup that has returned after the decoder reached the end of the
\* stream without an entry named tarPath returns no value and the error
\* ErrFileNotFound{Path: tarPath}, after its visitor was invoked for every
\* entry of the stream; and a lookup returns a not-found error only then.
C11_NotFoundAfterFullStream ==
    /\ (LookupDone /\ Last(pulls).kind = "EOF" /\ matches = << >>)
         => /\ ret = Return(NoResult, ErrFileNotFound(tarPath))
            /\ Len(ret.err) = 1
            /\ VisitedAllPulled
            /\ \A i \in 1..Len(outcomes) : outcomes[i] = Nil
    /\ (LookupDone /\ IsNotFound(ret.err))
         => /\ ret.err[1].Path = tarPath
            /\ ret.val = NoResult
            /\ Last(pulls).kind = "EOF"
            /\ matches = << >>
            /\ VisitedAllPulled

\* ReaderFromTar has returned not-found for tarPath after three entries, all
\* of them visited.
C11_Witness ==
    /\ op = ReaderFromTarOp
    /\ pc = "done"
    /\ ret.err = ErrFileNotFound(tarPath)
    /\ visited = <<0, 1, 2>>
    /\ Last(pulls).kind = "EOF"

\* ---- containment check and read limit
\* C12: the visitor run on an entry whose name is an absolute path, or whose
\* name resolves outside the destination root through ".." or otherwise,
\* returns the traversal error; run on an entry named "." it does not.
C12_ContainmentRejects ==
    [][ AtExtractVisit
          => /\ (IsRooted(hdr.Name)
                   \/ ~LexicallyInside(destination, Join(destination, hdr.Name)))
                  => IsTraversalError(Last(outcomes'))
             /\ hdr.Name = DOT => ~IsTraversalError(Last(outcomes')) ]_vars

\* C13: in every state the read limit is what package initialisation made of
\* the configuration string: the default of 2 GB for "0", "-1" and "x", which
\* are not positive integers, and 2 for "2"; it is greater than zero; and no
\* step of any operation changes it or the configuration string.
C13_ReadLimitSetOnce ==
    /\ []( /\ perFileReadLimitStr \in { <<"0">>, <<"-", "1">>, <<"x">> }
               => perFileReadLimit = [hi |-> 2, lo |-> 0]
           /\ perFileReadLimitStr = <<"2">> => perFileReadLimit = [hi |-> 0, lo |-> 2]
           /\ I64Lt(I64Zero, perFileReadLimit) )
    /\ [][ /\ perFileReadLimit' = perFileReadLimit
           /\ perFileReadLimitStr' = perFileReadLimitStr ]_vars

\* An extraction configured with "2" has returned the bomb-limit error with
\* the limit still 2.
C13_Witness ==
    /\ op = UntarToDirectoryOp
    /\ pc = "done"
    /\ perFileReadLimitStr = <<"2">>
    /\ perFileReadLimit = [hi |-> 0, lo |-> 2]
    /\ Len(outcomes) > 0
    /\ IsBombError(Last(outcomes))
    /\ Last(outcomes)[1].limit = perFileReadLimit

\* ---- MetadataFromTar
\* C14: when MetadataFromTar's visitor meets an entry named tarPath, it calls
\* NewMetadata with that entry's header and with a content reader if the
\* header's Size is greater than zero, and with no reader if it is zero; and
\* in no state of MetadataFromTar, returned or not, with a value, not-found
\* or an iteration error, has the stream passed in been closed.
C14_MetadataContentIffSize ==
    /\ [][ (pc = "visit" /\ op = MetadataFromTarOp /\ hdr.Name = tarPath)
             => /\ result'.kind = "Metadata"
                /\ result'.Header = hdr
                /\ I64Lt(I64Zero, hdr.Size) => result'.content # "nil"
                /\ hdr.Size = I64Zero => result'.content = "nil" ]_vars
    /\ []( op = MetadataFromTarOp
             => /\ closes = 0
                /\ (result # NoResult /\ result.content # "nil")
                     => I64Lt(I64Zero, result.Header.Size) )

\* MetadataFromTar has returned the metadata of a regular file of one byte,
\* made with a content reader, and the stream is not closed.
C14_Witness ==
    /\ op = MetadataFromTarOp
    /\ pc = "done"
    /\ ret.err = Nil
    /\ ret.val # NoResult
    /\ ret.val.Header.Size = [hi |-> 0, lo |-> 1]
    /\ ret.val.content = "reader"
    /\ closes = 0

\* ---- directory entries
\* The extraction visitor is about to run on a directory entry that is not
\* named "." and passes the containment check.
AtDirVisit ==
    /\ AtExtractVisit
    /\ hdr.Typeflag = TypeDir
    /\ hdr.Name # DOT
    /\ PassesContainment(destination, hdr.Name)

\* The target and the directories above it that are not on disk.
MissingChain(target) ==
    { p \in SelfAndAncestors(target) : ~IsImplicitDir(p) /\ p \notin DOMAIN fs }

\* A directory of mode 0755.
Dir0755 == [kind |-> "dir", mode |-> 493, size |-> I64Zero]

\* C15 as stated: the visitor run on such a directory entry returns continue
\* in every case, leaves the filesystem unchanged when something exists at
\* the target, and otherwise creates the target and its missing ancestors
\* with mode 0755.
C15_DirCreatedOrUntouched ==
    [][ AtDirVisit
          => LET target == Join(destination, hdr.Name) IN
             /\ Last(outcomes') = Nil
             /\ pc' = "next"
             /\ IF Exists(fs, target) THEN fs' = fs
                ELSE /\ DOMAIN fs' = DOMAIN fs \cup MissingChain(target)
                     /\ target \in DOMAIN fs'
                     /\ \A p \in DOMAIN fs : fs'[p] = fs[p]
                     /\ \A p \in MissingChain(target) : fs'[p] = Dir0755 ]_vars

\* C15, amended: the visitor run on such a directory entry leaves the
\* filesystem unchanged and returns continue when something exists at the
\* target; when nothing exists there and a component of the target path is a
\* regular file, it leaves the filesystem unchanged and returns the error of
\* MkdirAll, on which IterateTar returns an error; otherwise it creates the
\* target and its missing ancestors with mode 0755, changes nothing else and
\* returns continue.
C15_DirCreatedUnlessFileInPath ==
    [][ AtDirVisit
          => LET target == Join(destination, hdr.Name) IN
             IF Exists(fs, target)
             THEN /\ fs' = fs
                  /\ Last(outcomes') = Nil
                  /\ pc' = "next"
             ELSE IF \E p \in SelfAndAncestors(target) :
                        p \in DOMAIN fs /\ fs[p].kind = "file"
             THEN /\ fs' = fs
                  /\ Last(outcomes') # Nil
                  /\ ~IsTraversalError(Last(outcomes'))
                  /\ pc' = "returned"
                  /\ iterErr' # Nil
             ELSE /\ DOMAIN fs' = DOMAIN fs \cup MissingChain(target)
                  /\ target \in DOMAIN fs'
                  /\ \A p \in DOMAIN fs : fs'[p] = fs[p]
                  /\ \A p \in MissingChain(target) : fs'[p] = Dir0755
                  /\ Last(outcomes') = Nil
                  /\ pc' = "next" ]_vars

\* The visitor has run on the directory entry "a/b" for the destination "/o"
\* and has created /o/a and /o/a/b.
C15_Witness ==
    /\ op = UntarToDirectoryOp
    /\ destination = <<"/", "o">>
    /\ pc = "next"
    /\ hdr # NoEntry
    /\ hdr.Typeflag = TypeDir
    /\ hdr.Name = <<"a", "/", "b">>
    /\ Len(fsCalls) = 2
    /\ fsCalls[2].call = "MkdirAll"
    /\ <<"/", "o", "/", "a">> \in DOMAIN fs
    /\ <<"/", "o", "/", "a", "/", "b">> \in DOMAIN fs
    /\ fs[<<"/", "o", "/", "a">>] = Dir0755
    /\ fs[<<"/", "o", "/", "a", "/", "b">>] = Dir0755
    /\ Last(outcomes) = Nil

\* ---- the filesystem after an abort
IsCopyError(err) == err # Nil /\ err[1].tag = "copy"

\* Between fs and fs' nothing but the regular file at target was created or
\* written, and that file holds at most the read limit.
OnlyTargetWritten(target) ==
    /\ DOMAIN fs' = DOMAIN fs \cup {target}
    /\ \A p \in DOMAIN fs \ {target} : fs'[p] = fs[p]
    /\ fs'[target].kind = "file"
    /\ I64Leq(fs'[target].size, perFileReadLimit)

\* Once the extraction has returned nothing is pulled, visited or written.
NothingAfterAbort ==
    (op = UntarToDirectoryOp /\ Returned)
      => /\ fs' = fs
         /\ pulls' = pulls
         /\ visited' = visited
         /\ sequence' = sequence

\* C16 as stated: the visit that ends the extraction with an error leaves the
\* filesystem as the entries before it made it, but for the bomb-limit error,
\* where the file of the entry is left with at most read-limit bytes; and
\* nothing is pulled or written afterwards.
C16_AbortKeepsEarlierEffects ==
    [][ /\ (AtExtractVisit /\ Last(outcomes') # Nil)
             => /\ pc' = "returned"
                /\ iterErr' # Nil
                /\ Len(pulls) = sequence + 1
                /\ IF IsBombError(Last(outcomes'))
                   THEN OnlyTargetWritten(Join(destination, hdr.Name))
                   ELSE fs' = fs
        /\ NothingAfterAbort ]_vars

\* C16, amended: the visit that ends the extraction with an error leaves the
\* filesystem as the entries before it made it, but for the bomb-limit error
\* and the copy error, where the file of the entry is left, created or
\* written, with at most read-limit bytes; and nothing is pulled or written
\* afterwards.
C16_AbortKeepsEarlierAndPartial ==
    [][ /\ (AtExtractVisit /\ Last(outcomes') # Nil)
             => /\ pc' = "returned"
                /\ iterErr' # Nil
                /\ Len(pulls) = sequence + 1
                /\ IF IsBombError(Last(outcomes')) \/ IsCopyError(Last(outcomes'))
                   THEN OnlyTargetWritten(Join(destination, hdr.Name))
                   ELSE fs' = fs
        /\ NothingAfterAbort ]_vars

\* An extraction into "/o" with the limit 2 has returned the bomb-limit error
\* at its second entry, the file "a/b": the directory made for the first
\* entry is there, and so is the file, holding two bytes.
C16_Witness ==
    /\ op = UntarToDirectoryOp
    /\ destination = <<"/", "o">>
    /\ pc = "done"
    /\ ret.err # Nil
    /\ visited = <<0, 1>>
    /\ IsBombError(Last(outcomes))
    /\ perFileReadLimit = [hi |-> 0, lo |-> 2]
    /\ <<"/", "o", "/", "a">> \in DOMAIN fs
    /\ fs[<<"/", "o", "/", "a">>].kind = "dir"
    /\ <<"/", "o", "/", "a", "/", "b">> \in DOMAIN fs
    /\ fs[<<"/", "o", "/", "a", "/", "b">>].kind = "file"
    /\ fs[<<"/", "o", "/", "a", "/", "b">>].size = [hi |-> 0, lo |-> 2]

\* ---- the stream passed in
\* C17: the stream passed in has not been closed in any state of any
\* operation before the caller closes the reader ReaderFromTar returned,
\* whether the lookup succeeded, found nothing or returned an iteration
\* error; the reader returned on success is the decoder's reader standing at
\* the matched entry, with the stream as its closer: read to its end it
\* serves that entry's payload and nothing beyond it, and closing it closes
\* the stream exactly once.
C17_StreamOwnership ==
    /\ pc # "closed" => closes = 0
    /\ pc = "closed" => /\ closes = 1
                        /\ op = ReaderFromTarOp
                        /\ ret.err = Nil
    /\ (op = ReaderFromTarOp /\ pc \in {"done", "closed"} /\ ret.err = Nil)
         => /\ ret.val.kind = "tarFile"
            /\ ret.val.Reader = [kind |-> "tarReader", at |-> sequence]
            /\ ret.val.Closer = "reader"
            /\ ret.val.Header = hdr
            /\ hdr.Name = tarPath
            /\ served # NotRead
                 => /\ served.payload = hdr.Payload
                    /\ served.beyond = 0

\* The reader ReaderFromTar returned for a file of one byte has served that
\* byte and was closed, which closed the stream once.
C17_Witness ==
    /\ op = ReaderFromTarOp
    /\ pc = "closed"
    /\ closes = 1
    /\ served # NotRead
    /\ served.payload = [hi |-> 0, lo |-> 1]
    /\ served.err = Nil
    /\ ret.val.Header.Size = [hi |-> 0, lo |-> 1]

\* ---- file handles
\* C18: whenever the extraction visitor has returned, with or without an
\* error, every file handle it opened is closed; so none is open once
\* UntarToDirectory has returned.
C18_HandlesClosed ==
    op = UntarToDirectoryOp => openFiles = << >>

\* C19: the content reader MetadataFromTar gave to NewMetadata for a matched
\* entry of positive size whose payload is whole in the stream, read to its
\* end, has served the Size bytes of the payload and not one byte of padding
\* or of what follows the entry in the stream.
C19_MetadataContentIsPayload ==
    (/\ op = MetadataFromTarOp
     /\ served # NotRead
     /\ ret.val.Header.Payload = ret.val.Header.Size)
      => /\ served.payload = ret.val.Header.Size
         /\ served.beyond = 0
         /\ served.err = Nil

\* ---- duplicates
\* What a lookup captures at the entry header pulled as number seq.
CapturedAt(header, seq) ==
    IF op = ReaderFromTarOp
    THEN [kind |-> "tarFile", Reader |-> [kind |-> "tarReader", at |-> seq],
          Closer |-> "reader", Header |-> header]
    ELSE [kind |-> "Metadata", Header |-> header,
          content |-> IF header.Size = I64Zero THEN "nil" ELSE "reader"]

\* C20: a lookup visits at most one entry named tarPath, the first in stream
\* order: once it has visited one, the iteration has returned, that entry is
\* the last one pulled and visited, so that no later occurrence is ever
\* reached, and what the lookup captured and returns is made of that entry's
\* header and Sequence alone, whatever the stream holds after it; before it
\* has visited one, it has captured nothing.
C20_FirstOccurrenceWins ==
    IsLookup
      => /\ Len(matches) <= 1
         /\ matches = << >> => result = NoResult
         /\ matches # << >>
              => /\ Returned
                 /\ matches[1] = Last(visited)
                 /\ matches[1] = sequence
                 /\ Len(pulls) = matches[1] + 1
                 /\ \A i \in 1..(Len(outcomes) - 1) : outcomes[i] = Nil
                 /\ result = CapturedAt(hdr, matches[1])
                 /\ pc \in {"done", "closed"} => ret = Return(result, Nil)

\* ReaderFromTar has returned the entry named tarPath it met as the second
\* entry, with Sequence 1, when the stream could have given one more entry,
\* of any name, the same one included.
C20_Witness ==
    /\ op = ReaderFromTarOp
    /\ pc = "done"
    /\ matches = <<1>>
    /\ visited = <<0, 1>>
    /\ MorePulls
    /\ ret.err = Nil
    /\ ret.val.Header.Name = tarPath

====
